---- MODULE Spec2Model ----
(***************************************************************************)
(* The request-admission pipeline of the portfolio micro-services:        *)
(*   - the API gateway's Express application and its per-route chain      *)
(*     rate-limit -> authenticate -> target tag -> proxy,                  *)
(*   - the event-bus service's table-backed rate limiter,                  *)
(*   - the backend services' JWKS cache (key resolver) and their           *)
(*     role / permission guards.                                           *)
(***************************************************************************)
EXTENDS Integers, Sequences, FiniteSets, TLC

VARIABLES
    stack,      \* which layer stack requests are dispatched over: "routes" or "app"
    redis,      \* REDIS_URL is set: the limiters use the shared RedisStore
    storeUp,    \* the Redis server answers commands
    hits,       \* counter store: [store key -> totalHits]
    seen,       \* history: requests counted per (class, ip) since the window opened
    req,        \* the gateway request being handled
    now,        \* event-bus clock (ticks)
    dbUp,       \* the event-bus database answers queries
    entries,    \* rate_limit_entries: [<<service, first_request_time>> -> number of rows]
    bus,        \* event-bus requests in flight: [BusSlots -> record]
    jwksCache,      \* backend auth middleware: the cached key set, or none
    jwksCacheTime,  \* backend auth middleware: when the cached key set was requested
    published,  \* the kids the auth service's jwks.json lists at this moment
    issuerUp,   \* the auth service answers the jwks.json request
    clock,      \* Date.now() of the backend process (ticks)
    res,        \* getPublicKey calls in flight: [ResSlots -> record]
    fetchSeq,   \* history: number of jwks.json requests sent so far
    guard,      \* a request at a backend's hasRole / hasPermission middleware
    memo,       \* history: how the first request of the run was resolved
    fwd,        \* gateway: proxied calls of concurrent requests, [FwdSlots -> record]
    db,         \* auth service: the user's row in the users table
    calls,      \* auth service: requests in flight, [AuthSlots -> record]
    authNow,    \* auth service: Date.now() (ticks)
    hist        \* auth service history: tokens issued, password changes, reset tokens

gwVars == <<stack, redis, storeUp, hits, seen, req>>
busVars == <<now, dbUp, entries, bus>>
keyVars == <<jwksCache, jwksCacheTime, published, issuerUp, clock, res, fetchSeq>>

authVars == <<db, calls, authNow, hist>>

vars == <<gwVars, busVars, keyVars, guard, memo, fwd, authVars>>

Null == "null"

(***************************************************************************)
(* Bounds.  The class maxima are the program's 20 / 100 / 300 scaled down *)
(* with their order kept.                                                  *)
(***************************************************************************)
MaxStrict == 1
MaxStandard == 2
MaxPublic == 3
MaxPerWindow == 4
\* Event bus: 100 and 50 per window scaled down, the window in clock ticks.
MaxEventPublish == 2
MaxServiceSpecific == 1
BusWindow == 1
MaxTime == 2
\* Key resolver: JWKS_CACHE_TTL (3600000 ms) in clock ticks, the clock's range and
\* the number of jwks.json requests followed.
JwksCacheTtl == 2
MaxClock == 3
MaxFetches == 3
\* Guards: the longest roles / permissions array followed.
MaxArrayLen == 2
\* Concurrent forwards: the requests the gateway handles at the same time.
MaxInbound == 3
\* Auth service: loginAttempts.maxAttempts (5) and windowMs (15 minutes), the reset
\* token's hour, the clock's range, the reset tokens and password changes followed.
MaxAttempts == 2
LockWindow == 1
ResetTtl == 1
MaxAuthTime == 2
MaxResetTokens == 1
MaxPasswordChanges == 2
MaxIssued == 1

(***************************************************************************)
(* Route table (config/routes.js), in declaration order.                   *)
(***************************************************************************)
Params == {":id", ":token", ":techId"}

Rule(m, p, a) == [method |-> m, path |-> p, auth |-> a]

AuthRoutes ==
    << Rule("POST", <<"login">>, FALSE),
       Rule("POST", <<"register">>, FALSE),
       Rule("POST", <<"refresh-token">>, FALSE),
       Rule("POST", <<"logout">>, TRUE),
       Rule("GET", <<"verify-email", ":token">>, FALSE),
       Rule("POST", <<"forgot-password">>, FALSE),
       Rule("POST", <<"reset-password", ":token">>, FALSE) >>

ProfileRoutes ==
    << Rule("GET", <<>>, FALSE),
       Rule("GET", <<":id">>, FALSE),
       Rule("GET", <<"me">>, TRUE),
       Rule("PUT", <<"me">>, TRUE),
       Rule("POST", <<"me", "skills">>, TRUE),
       Rule("PUT", <<"me", "skills", ":id">>, TRUE),
       Rule("DELETE", <<"me", "skills", ":id">>, TRUE),
       Rule("POST", <<"me", "experience">>, TRUE),
       Rule("PUT", <<"me", "experience", ":id">>, TRUE),
       Rule("DELETE", <<"me", "experience", ":id">>, TRUE) >>

ProjectsRoutes ==
    << Rule("GET", <<>>, FALSE),
       Rule("GET", <<":id">>, FALSE),
       Rule("POST", <<>>, TRUE),
       Rule("PUT", <<":id">>, TRUE),
       Rule("DELETE", <<":id">>, TRUE),
       Rule("POST", <<":id", "technologies">>, TRUE),
       Rule("DELETE", <<":id", "technologies", ":techId">>, TRUE) >>

BlogRoutes ==
    << Rule("GET", <<"articles">>, FALSE),
       Rule("GET", <<"articles", ":id">>, FALSE),
       Rule("POST", <<"articles">>, TRUE),
       Rule("PUT", <<"articles", ":id">>, TRUE),
       Rule("DELETE", <<"articles", ":id">>, TRUE),
       Rule("GET", <<"categories">>, FALSE),
       Rule("POST", <<"categories">>, TRUE),
       Rule("PUT", <<"categories", ":id">>, TRUE),
       Rule("DELETE", <<"categories", ":id">>, TRUE),
       Rule("GET", <<"articles", ":id", "comments">>, FALSE),
       Rule("POST", <<"articles", ":id", "comments">>, TRUE),
       Rule("PUT", <<"comments", ":id">>, TRUE),
       Rule("DELETE", <<"comments", ":id">>, TRUE) >>

ContactRoutes ==
    << Rule("POST", <<"messages">>, FALSE),
       Rule("GET", <<"messages">>, TRUE),
       Rule("GET", <<"messages", ":id">>, TRUE),
       Rule("PUT", <<"messages", ":id">>, TRUE),
       Rule("DELETE", <<"messages", ":id">>, TRUE) >>

AnalyticsRoutes ==
    << Rule("GET", <<"metrics">>, TRUE),
       Rule("GET", <<"visitors">>, TRUE),
       Rule("GET", <<"pageviews">>, TRUE),
       Rule("POST", <<"track">>, FALSE) >>

Service(k, pre, rs) == [key |-> k, prefix |-> pre, routes |-> rs]

\* Object.keys(routes) enumerates the services in insertion order.
routes ==
    << Service("auth", <<"api", "auth">>, AuthRoutes),
       Service("profile", <<"api", "profiles">>, ProfileRoutes),
       Service("projects", <<"api", "projects">>, ProjectsRoutes),
       Service("blog", <<"api", "blog">>, BlogRoutes),
       Service("contact", <<"api", "contact">>, ContactRoutes),
       Service("analytics", <<"api", "analytics">>, AnalyticsRoutes) >>

Classes == {"strict", "standard", "public"}

\* fullPath.includes('/login') || fullPath.includes('/register')
IncludesLoginOrRegister(fullPath) ==
    \E i \in 1..Len(fullPath) : fullPath[i] \in {"login", "register"}

\* The limiter the routing setup picks for a route.
RateClass(method, fullPath, isAuthRequired) ==
    IF method = "POST" /\ IncludesLoginOrRegister(fullPath) THEN "strict"
    ELSE IF ~isAuthRequired THEN "public"
    ELSE "standard"

\* One registered route: app[method](fullPath, [rateLimiter, authenticate, tag, proxy]).
RouteLayer(service, route) ==
    LET fullPath == service.prefix \o route.path
        isAuthRequired == route.auth = TRUE
    IN [kind |-> "route", method |-> route.method, path |-> fullPath,
        auth |-> isAuthRequired,
        class |-> RateClass(route.method, fullPath, isAuthRequired),
        target |-> service.key]

ServiceLayers(service) ==
    [i \in 1..Len(service.routes) |-> RouteLayer(service, service.routes[i])]

RECURSIVE RegisterFrom(_)
RegisterFrom(k) ==
    IF k > Len(routes) THEN <<>>
    ELSE ServiceLayers(routes[k]) \o RegisterFrom(k + 1)

\* The layers the service routing setup registers, in registration order.
RouteLayers == RegisterFrom(1)

PlainLayer(k, m, p) ==
    [kind |-> k, method |-> m, path |-> p, auth |-> FALSE, class |-> "public",
     target |-> "gateway"]

\* The whole application, in the order the server file registers its layers.
AppLayers ==
    << PlainLayer("health", "GET", <<"health">>),
       PlainLayer("fallback", "*", <<"*">>),
       PlainLayer("errorHandler", "*", <<"*">>),
       PlainLayer("metrics", "GET", <<"metrics">>) >> \o RouteLayers

\* The layer stack in use.
layers == IF stack = "app" THEN AppLayers ELSE RouteLayers

(***************************************************************************)
(* Express routing: the first layer, in stack order, that matches.         *)
(***************************************************************************)
SegMatch(pat, seg) == pat = seg \/ pat \in Params

PathMatch(pat, path) ==
    /\ Len(pat) = Len(path)
    /\ \A i \in 1..Len(pat) : SegMatch(pat[i], path[i])

\* errorHandler takes (err, req, res, next): Express skips it while no error is pending.
LayerMatches(layer, method, path) ==
    CASE layer.kind = "fallback" -> TRUE
      [] layer.kind = "errorHandler" -> FALSE
      [] OTHER -> layer.method = method /\ PathMatch(layer.path, path)

\* A faulty variant of FirstMatch: the last matching layer is taken.
LastMatch(ls, method, path) ==
    LET hit == {i \in 1..Len(ls) : LayerMatches(ls[i], method, path)}
    IN IF hit = {} THEN 0 ELSE CHOOSE i \in hit : \A j \in hit : i >= j

\* A faulty variant of FirstMatch: matching keeps state between requests (as a regular
\* expression with the global flag does), so every other counted request skips the
\* first matching layer.
StatefulMatch(ls, method, path) ==
    LET hit == {i \in 1..Len(ls) : LayerMatches(ls[i], method, path)}
        odd == (hits[<<"public", "ip1">>] + hits[<<"rl:", "ip1">>]) % 2 = 1
    IN IF hit = {} THEN 0
       ELSE IF odd THEN CHOOSE i \in hit : \A j \in hit : i >= j
       ELSE CHOOSE i \in hit : \A j \in hit : i <= j

\* Index of the first matching layer of the stack, 0 when none matches.
FirstMatch(ls, method, path) ==
    LET hit == {i \in 1..Len(ls) : LayerMatches(ls[i], method, path)}
    IN IF hit = {} THEN 0 ELSE CHOOSE i \in hit : \A j \in hit : i <= j

(***************************************************************************)
(* Tokens and their verification (gateway auth middleware).                *)
(***************************************************************************)
\* config.auth of the gateway, and the key set the auth service publishes (kid '1').
Issuer == "portfolio-api"
Audience == "portfolio-client"
Algorithms == {"RS256"}
PublishedKids == {"1"}

\* raw: "none" (no credential sent), "garbage" (not a JWT) or "jwt".
Tok(raw, kid, alg, by, iss, aud, expd, sub, hasRoles, roles) ==
    [raw |-> raw, kid |-> kid, alg |-> alg, signedBy |-> by, iss |-> iss,
     aud |-> aud, expired |-> expd, sub |-> sub, hasRoles |-> hasRoles,
     roles |-> roles]

NoToken == Tok("none", Null, Null, Null, Null, Null, FALSE, Null, FALSE, <<>>)
TokValid == Tok("jwt", "1", "RS256", "1", Issuer, Audience, FALSE, "u1", TRUE, <<"user">>)
TokAdmin == Tok("jwt", "1", "RS256", "1", Issuer, Audience, FALSE, "u2", TRUE, <<"admin", "user">>)
TokNoRoles == Tok("jwt", "1", "RS256", "1", Issuer, Audience, FALSE, "u3", FALSE, <<>>)

\* A user of the auth service, as login hands it to generateTokens.
LoginUser == [id |-> "u1", roles |-> <<"user">>]

\* generateTokens(user), the access token: jwt.sign(payload, privateKey, {algorithm,
\* expiresIn, issuer, audience}) with the auth service's config.jwt. No keyid option
\* is passed, so the header carries alg and typ only; the private key is the one whose
\* public half getJwks publishes as kid '1'.
generateTokens(user) ==
    Tok("jwt", Null, "RS256", "1", "portfolio-api", "portfolio-client", FALSE,
        user.id, TRUE, user.roles)

\* What extractToken may find on a request, by name: nothing, or one of these.
TokenTable ==
    [ none |-> NoToken,
      valid |-> TokValid,
      admin |-> TokAdmin,
      noRoles |-> TokNoRoles,
      garbage |-> Tok("garbage", Null, Null, Null, Null, Null, FALSE, Null, FALSE, <<>>),
      noKid |-> generateTokens(LoginUser),
      unknownKid |-> Tok("jwt", "2", "RS256", "2", Issuer, Audience, FALSE, "u1", TRUE, <<"admin">>),
      badSignature |-> Tok("jwt", "1", "RS256", "2", Issuer, Audience, FALSE, "u1", TRUE, <<"admin">>),
      algNone |-> Tok("jwt", "1", "none", Null, Issuer, Audience, FALSE, "u1", TRUE, <<"admin">>),
      wrongIssuer |-> Tok("jwt", "1", "RS256", "1", "other-api", Audience, FALSE, "u1", TRUE, <<"user">>),
      wrongAudience |-> Tok("jwt", "1", "RS256", "1", Issuer, "other-client", FALSE, "u1", TRUE, <<"user">>),
      expired |-> Tok("jwt", "1", "RS256", "1", Issuer, Audience, TRUE, "u1", TRUE, <<"user">>) ]

Tokens == DOMAIN TokenTable

\* The token a request carries.
Token(r) == TokenTable[r.token]

Fail(why) == [ok |-> FALSE, reason |-> why, payload |-> NoToken]

\* getSigningKey(kid): the key published under kid, or a throw.
getSigningKey(kid) ==
    IF kid \in PublishedKids THEN [ok |-> TRUE, key |-> kid]
    ELSE [ok |-> FALSE, key |-> Null]

\* A faulty variant of jwtVerify: the payload is decoded and trusted without verification.
jwtDecodeOnly(token, key) == [ok |-> TRUE, reason |-> "", payload |-> token]

\* jwt.verify(token, key, {algorithms, issuer, audience}).
jwtVerify(token, key) ==
    IF token.alg \notin Algorithms THEN Fail("invalid algorithm")
    ELSE IF token.signedBy # key THEN Fail("invalid signature")
    ELSE IF token.expired THEN Fail("jwt expired")
    ELSE IF token.aud # Audience THEN Fail("jwt audience invalid")
    ELSE IF token.iss # Issuer THEN Fail("jwt issuer invalid")
    ELSE [ok |-> TRUE, reason |-> "", payload |-> token]

\* A faulty variant of verifyToken: a kid that cannot be resolved falls back to the
\* key the token itself names.
verifyTokenOwnKey(token) ==
    IF token.raw # "jwt" \/ token.kid = Null THEN Fail("Invalid token format")
    ELSE LET signingKey == getSigningKey(token.kid)
         IN IF ~signingKey.ok THEN jwtVerify(token, token.signedBy)
            ELSE jwtVerify(token, signingKey.key)

\* verifyToken(token): decode the header, resolve the key by kid, verify.
verifyToken(token) ==
    IF token.raw # "jwt" \/ token.kid = Null THEN Fail("Invalid token format")
    ELSE LET signingKey == getSigningKey(token.kid)
         IN IF ~signingKey.ok THEN Fail("Unable to retrieve signing key")
            ELSE jwtVerify(token, signingKey.key)

\* A faulty variant of UserOf: the roles claim is not copied.
UserOfWithoutRoles(decoded) == [id |-> decoded.sub, roles |-> <<>>]

\* req.user as authenticate builds it from the decoded payload.
UserOf(decoded) ==
    [id |-> decoded.sub,
     roles |-> IF decoded.hasRoles THEN decoded.roles ELSE <<>>]

(***************************************************************************)
(* The gateway's rate limiters (express-rate-limit over a MemoryStore per  *)
(* limiter, or over one RedisStore prefix when REDIS_URL is set).          *)
(***************************************************************************)
IPs == {"ip1"}

Max(class) ==
    CASE class = "strict" -> MaxStrict
      [] class = "standard" -> MaxStandard
      [] OTHER -> MaxPublic

\* Each limiter owns its MemoryStore; every RedisStore is built with prefix 'rl:'.
Stores == Classes \cup {"rl:"}

StoreKey(class, ip) == IF redis THEN <<"rl:", ip>> ELSE <<class, ip>>

\* rateLimit(): answer 429 once the post-increment count is above max.
OverLimit(totalHits, class) == totalHits > Max(class)

SeenTotal == LET S == Classes \X IPs IN
    IF S = {} THEN 0 ELSE
    LET RECURSIVE Sum(_)
        Sum(T) == IF T = {} THEN 0
                  ELSE LET x == CHOOSE y \in T : TRUE IN seen[x] + Sum(T \ {x})
    IN Sum(S)

(***************************************************************************)
(* Gateway requests.                                                       *)
(***************************************************************************)
Req(m, p) == [method |-> m, path |-> p]

\* The requests clients send in the model.
Requests ==
    { Req("POST", <<"api", "auth", "login">>),
      Req("GET", <<"api", "profiles", "me">>),
      Req("PUT", <<"api", "profiles", "me">>),
      Req("GET", <<"api", "contact", "messages">>),
      Req("GET", <<"health">>),
      Req("GET", <<"api", "nowhere">>) }

\* X-User-Id / X-User-Roles as the client itself may send them (Null, <<>>: not sent).
ClientHeaders ==
    { [xUserId |-> Null, xUserRoles |-> <<>>],
      [xUserId |-> "u2", xUserRoles |-> <<"[", "admin", "]">>] }

BackendStatuses == {200, 404, 500}

NoUser == [id |-> Null, roles |-> <<>>]
NoOut == [sent |-> FALSE, target |-> Null, xUserId |-> Null, xUserRoles |-> <<>>]

IdleReq ==
    [pc |-> "idle", method |-> Null, path |-> <<>>, ip |-> Null, token |-> "none",
     headers |-> [xUserId |-> Null, xUserRoles |-> <<>>], layer |-> 0,
     user |-> NoUser, out |-> NoOut, status |-> 0, by |-> Null, stages |-> <<>>,
     totalHits |-> 0, ord |-> 0, storeErr |-> FALSE, responses |-> 0, body |-> Null,
     attempts |-> 0]

\* JSON.stringify of an array of strings, as a sequence of lexemes.
RECURSIVE JsonItems(_)
JsonItems(a) ==
    IF Len(a) = 0 THEN <<>>
    ELSE IF Len(a) = 1 THEN <<a[1]>>
    ELSE <<a[1], ",">> \o JsonItems(Tail(a))

\* A faulty variant of JsonStringify: only the first element is written.
JsonStringifyFirst(a) ==
    <<"[">> \o (IF Len(a) = 0 THEN <<>> ELSE <<a[1]>>) \o <<"]">>

JsonStringify(a) == <<"[">> \o JsonItems(a) \o <<"]">>

\* Which handler Express runs for the layer a request is dispatched to.
HandlerOf(ls, idx) ==
    IF idx = 0 THEN "finalhandler"
    ELSE IF ls[idx].kind = "route" THEN "rateLimit"
    ELSE ls[idx].kind

\* What a dispatch settles for a request: target, authentication requirement, limiter.
Resolution(ls, idx) ==
    IF idx = 0 THEN [target |-> Null, auth |-> FALSE, class |-> Null]
    ELSE [target |-> ls[idx].target, auth |-> ls[idx].auth, class |-> ls[idx].class]

\* A request arrives and Express dispatches it to the first matching layer.
Receive(rq, ip, tok, hdr) ==
    /\ req.pc = "idle"
    /\ SeenTotal < MaxPerWindow
    /\ LET idx == FirstMatch(layers, rq.method, rq.path) IN
          /\ req' = [IdleReq EXCEPT !.pc = HandlerOf(layers, idx), !.method = rq.method,
                              !.path = rq.path, !.ip = ip, !.token = tok,
                              !.headers = hdr, !.layer = idx]
          /\ memo' = IF memo.on /\ ~memo.set
                     THEN [memo EXCEPT !.set = TRUE, !.method = rq.method,
                                       !.path = rq.path,
                                       !.resolution = Resolution(layers, idx)]
                     ELSE memo
    /\ UNCHANGED <<stack, redis, storeUp, hits, seen>>
    /\ UNCHANGED <<busVars, keyVars, guard, fwd, authVars>>

\* store.increment(key) rejected: express-rate-limit hands the error to next(err),
\* and with no error handler after the route Express answers 500.
StoreError(r) ==
    [r EXCEPT !.pc = "done", !.status = 500, !.by = "errorPath", !.storeErr = TRUE,
              !.responses = @ + 1, !.body = "html"]

\* First stage of a route's chain: the limiter picked for the route.
RateLimit ==
    /\ req.pc = "rateLimit"
    /\ LET class == layers[req.layer].class
           key == StoreKey(class, req.ip)
           ord == seen[<<class, req.ip>>] + 1
           totalHits == hits[key] + 1
       IN /\ seen' = [seen EXCEPT ![<<class, req.ip>>] = ord]
          /\ IF redis /\ ~storeUp
             THEN /\ req' = [StoreError(req) EXCEPT !.ord = ord]
                  /\ hits' = hits
             ELSE /\ hits' = [hits EXCEPT ![key] = totalHits]
                  /\ req' = IF OverLimit(totalHits, class)
                            THEN [req EXCEPT !.pc = "done", !.status = 429,
                                             !.by = "rateLimiter", !.ord = ord,
                                             !.totalHits = totalHits,
                                             !.responses = @ + 1,
                                             !.body = "formatError"]
                            ELSE [req EXCEPT !.pc = "authenticate", !.ord = ord,
                                             !.totalHits = totalHits,
                                             !.stages = Append(@, "rateLimit")]
    /\ UNCHANGED <<stack, redis, storeUp>>
    /\ UNCHANGED <<busVars, keyVars, guard, memo, fwd, authVars>>

\* A faulty variant of AuthOutcome: the 401 is written but the chain is not left (a missing return).
AuthOutcomeNoReturn(r, required) ==
    IF Token(r).raw = "none" \/ ~verifyToken(Token(r)).ok
    THEN [r EXCEPT !.pc = "target", !.status = 401, !.by = "authenticate",
                   !.responses = @ + 1, !.body = "formatError"]
    ELSE [r EXCEPT !.pc = "target", !.user = UserOf(Token(r)),
                   !.stages = Append(@, "authenticate")]

\* A faulty variant of AuthOutcome: a token that fails verification is answered 401
\* on every route, required or not.
AuthOutcomeStrict(r, required) ==
    IF Token(r).raw = "none" /\ required
    THEN [r EXCEPT !.pc = "done", !.status = 401, !.by = "authenticate",
                   !.responses = @ + 1, !.body = "formatError"]
    ELSE IF Token(r).raw = "none" /\ ~required
    THEN [r EXCEPT !.pc = "target", !.user = NoUser,
                   !.stages = Append(@, "authenticate")]
    ELSE LET decoded == verifyToken(Token(r)) IN
         IF decoded.ok
         THEN [r EXCEPT !.pc = "target", !.user = UserOf(decoded.payload),
                        !.stages = Append(@, "authenticate")]
         ELSE [r EXCEPT !.pc = "done", !.status = 401, !.by = "authenticate",
                        !.responses = @ + 1, !.body = "formatError"]

\* authenticate(required): the request after the middleware has run.
AuthOutcome(r, required) ==
    IF Token(r).raw = "none" /\ required
    THEN [r EXCEPT !.pc = "done", !.status = 401, !.by = "authenticate",
                   !.responses = @ + 1, !.body = "formatError"]
    ELSE IF Token(r).raw = "none" /\ ~required
    THEN [r EXCEPT !.pc = "target", !.user = NoUser,
                   !.stages = Append(@, "authenticate")]
    ELSE LET decoded == verifyToken(Token(r)) IN
         IF decoded.ok
         THEN [r EXCEPT !.pc = "target", !.user = UserOf(decoded.payload),
                        !.stages = Append(@, "authenticate")]
         ELSE IF required
         THEN [r EXCEPT !.pc = "done", !.status = 401, !.by = "authenticate",
                   !.responses = @ + 1, !.body = "formatError"]
         ELSE [r EXCEPT !.pc = "target", !.user = NoUser,
                        !.stages = Append(@, "authenticate")]

Authenticate ==
    /\ req.pc = "authenticate"
    /\ req' = AuthOutcome(req, layers[req.layer].auth)
    /\ UNCHANGED <<stack, redis, storeUp, hits, seen>>
    /\ UNCHANGED <<busVars, keyVars, guard, memo, fwd, authVars>>

\* Third stage: req.targetService = {name, url}; next().
SetTarget ==
    /\ req.pc = "target"
    /\ req' = [req EXCEPT !.pc = "proxy", !.stages = Append(@, "target")]
    /\ UNCHANGED <<stack, redis, storeUp, hits, seen>>
    /\ UNCHANGED <<busVars, keyVars, guard, memo, fwd, authVars>>

\* The outbound request: the client's headers, then onProxyReq's setHeader calls.
Outbound(r, target) ==
    IF r.user # NoUser
    THEN [sent |-> TRUE, target |-> target, xUserId |-> r.user.id,
          xUserRoles |-> JsonStringify(r.user.roles)]
    ELSE [sent |-> TRUE, target |-> target, xUserId |-> r.headers.xUserId,
          xUserRoles |-> r.headers.xUserRoles]

\* Fourth stage: createProxyMiddleware sends the request to the service's target.
Proxy ==
    /\ req.pc = "proxy"
    /\ req' = [req EXCEPT !.pc = "upstream",
                          !.out = Outbound(req, layers[req.layer].target),
                          !.attempts = @ + 1,
                          !.stages = Append(@, "forward")]
    /\ UNCHANGED <<stack, redis, storeUp, hits, seen>>
    /\ UNCHANGED <<busVars, keyVars, guard, memo, fwd, authVars>>

\* The backend answers and the proxy relays its status.
BackendRespond(status) ==
    /\ req.pc = "upstream"
    /\ req' = [req EXCEPT !.pc = "done", !.status = status, !.by = "backend",
                          !.responses = @ + 1, !.body = "backend"]
    /\ UNCHANGED <<stack, redis, storeUp, hits, seen>>
    /\ UNCHANGED <<busVars, keyVars, guard, memo, fwd, authVars>>

\* How the target can fail the proxied call: connection refused, or no answer within
\* proxyTimeout.
UpstreamErrors == {"ECONNREFUSED", "ETIMEDOUT"}

\* The status http-proxy-middleware's own error handler writes (504 for these codes in
\* its 2.x releases, 500 in the earlier ones); the route's createProxyMiddleware is
\* given no onError, and proxy.on('error') is attached to another, unused proxy.
ProxyErrorStatuses == {500, 504}

\* The proxied call fails: the middleware's error handler answers, with a text body
\* naming the host and url; the call is not repeated.
UpstreamFail(code, status) ==
    /\ req.pc = "upstream"
    /\ req' = [req EXCEPT !.pc = "done", !.status = status, !.by = "proxyError",
                          !.responses = @ + 1, !.body = "textWithHost"]
    /\ UNCHANGED <<stack, redis, storeUp, hits, seen>>
    /\ UNCHANGED <<busVars, keyVars, guard, memo, fwd, authVars>>

\* No layer matched: Express's final handler answers 404.
FinalHandler ==
    /\ req.pc = "finalhandler"
    /\ req' = [req EXCEPT !.pc = "done", !.status = 404, !.by = "express",
                          !.responses = @ + 1, !.body = "html"]
    /\ UNCHANGED <<stack, redis, storeUp, hits, seen>>
    /\ UNCHANGED <<busVars, keyVars, guard, memo, fwd, authVars>>

\* app.get('/health'): 200.
Health ==
    /\ req.pc = "health"
    /\ req' = [req EXCEPT !.pc = "done", !.status = 200, !.by = "health",
                          !.responses = @ + 1, !.body = "json"]
    /\ UNCHANGED <<stack, redis, storeUp, hits, seen>>
    /\ UNCHANGED <<busVars, keyVars, guard, memo, fwd, authVars>>

\* A faulty variant of Fallback: res.json(...) without res.status(404).
FallbackWithoutStatus ==
    /\ req.pc = "fallback"
    /\ req' = [req EXCEPT !.pc = "done", !.status = 200, !.by = "fallback",
                          !.responses = @ + 1, !.body = "json"]
    /\ UNCHANGED <<stack, redis, storeUp, hits, seen>>
    /\ UNCHANGED <<busVars, keyVars, guard, memo, fwd, authVars>>

\* app.use('*'): 404 'Not Found', without calling next.
Fallback ==
    /\ req.pc = "fallback"
    /\ req' = [req EXCEPT !.pc = "done", !.status = 404, !.by = "fallback",
                          !.responses = @ + 1, !.body = "json"]
    /\ UNCHANGED <<stack, redis, storeUp, hits, seen>>
    /\ UNCHANGED <<busVars, keyVars, guard, memo, fwd, authVars>>

\* The response has been sent; the next request is taken up.
Retire ==
    /\ req.pc = "done"
    /\ req' = IdleReq
    /\ UNCHANGED <<stack, redis, storeUp, hits, seen>>
    /\ UNCHANGED <<busVars, keyVars, guard, memo, fwd, authVars>>

\* MemoryStore: the limiter's interval timer resets every key of its store.
WindowRoll(class) ==
    /\ ~redis
    /\ \E ip \in IPs : seen[<<class, ip>>] > 0
    /\ hits' = [k \in DOMAIN hits |-> IF k[1] = class THEN 0 ELSE hits[k]]
    /\ seen' = [k \in DOMAIN seen |-> IF k[1] = class THEN 0 ELSE seen[k]]
    /\ UNCHANGED <<stack, redis, storeUp, req>>
    /\ UNCHANGED <<busVars, keyVars, guard, memo, fwd, authVars>>

\* RedisStore: the key's expiry (set when it was first incremented) passes.
KeyExpire(ip) ==
    /\ redis
    /\ \E c \in Classes : seen[<<c, ip>>] > 0
    /\ hits' = [hits EXCEPT ![<<"rl:", ip>>] = 0]
    /\ seen' = [k \in DOMAIN seen |-> IF k[2] = ip THEN 0 ELSE seen[k]]
    /\ UNCHANGED <<stack, redis, storeUp, req>>
    /\ UNCHANGED <<busVars, keyVars, guard, memo, fwd, authVars>>

\* The Redis server becomes unreachable, or reachable again.
RedisFlip ==
    /\ redis
    /\ storeUp' = ~storeUp
    /\ UNCHANGED <<stack, redis, hits, seen, req>>
    /\ UNCHANGED <<busVars, keyVars, guard, memo, fwd, authVars>>

GwInit(which) ==
    /\ stack = which
    /\ redis \in BOOLEAN
    /\ storeUp = TRUE
    /\ hits = [k \in Stores \X IPs |-> 0]
    /\ seen = [k \in Classes \X IPs |-> 0]
    /\ req = IdleReq

(***************************************************************************)
(* The event bus's rate limiter over the rate_limit_entries table.         *)
(***************************************************************************)
BusSlots == {"r1", "r2"}
Times == 0..MaxTime

\* eventPublishRateLimiter (1) and serviceSpecificRateLimiter (2), run in this order
\* by combinedEventRateLimiter.
Limiter(n) ==
    IF n = 1
    THEN [service |-> "event-publish", max |-> MaxEventPublish, windowMs |-> BusWindow]
    ELSE [service |-> "service-specific", max |-> MaxServiceSpecific, windowMs |-> BusWindow]

BusServices == {Limiter(1).service, Limiter(2).service}

IdleBus ==
    [pc |-> "idle", lim |-> 1, windowStart |-> 0, found |-> 0, status |-> 0,
     nexts |-> 0, dbErr |-> FALSE, logged |-> 0]

RECURSIVE RowsFrom(_, _, _)
\* Rows of a service with first_request_time >= from.
RowsFrom(tbl, service, from) ==
    IF from > MaxTime THEN 0
    ELSE (IF from >= 0 THEN tbl[<<service, from>>] ELSE 0)
         + RowsFrom(tbl, service, IF from >= 0 THEN from + 1 ELSE 0)

\* The limiter is entered: now and windowStart are read before the first await.
Enter(r, n) ==
    [r EXCEPT !.pc = "destroy", !.lim = n, !.found = 0,
              !.windowStart = now - Limiter(n).windowMs]

\* next() of a limiter: the first hands over to the second, the second to the route.
CallNext(r) ==
    IF r.lim = 1 THEN Enter(r, 2)
    ELSE [r EXCEPT !.pc = "done", !.status = 200, !.nexts = @ + 1]

\* catch (error): console.error, then next().
Catch(r) == CallNext([r EXCEPT !.dbErr = TRUE, !.logged = @ + 1])

BusArrive(s) ==
    /\ bus[s].pc = "idle"
    /\ bus' = [bus EXCEPT ![s] = Enter(IdleBus, 1)]
    /\ UNCHANGED <<now, dbUp, entries>>
    /\ UNCHANGED <<gwVars, keyVars, guard, memo, fwd, authVars>>

\* RateLimitEntry.destroy: every row older than windowStart, of any ip and service.
BusDestroy(s) ==
    /\ bus[s].pc = "destroy"
    /\ IF dbUp
       THEN /\ entries' = [k \in DOMAIN entries |->
                              IF k[2] < bus[s].windowStart THEN 0 ELSE entries[k]]
            /\ bus' = [bus EXCEPT ![s].pc = "findAll"]
       ELSE /\ entries' = entries
            /\ bus' = [bus EXCEPT ![s] = Catch(@)]
    /\ UNCHANGED <<now, dbUp>>
    /\ UNCHANGED <<gwVars, keyVars, guard, memo, fwd, authVars>>

\* RateLimitEntry.findAll: the rows of this ip and service inside the window.
BusFindAll(s) ==
    /\ bus[s].pc = "findAll"
    /\ bus' = IF dbUp
              THEN [bus EXCEPT ![s].pc = "create",
                               ![s].found = RowsFrom(entries, Limiter(bus[s].lim).service,
                                                     bus[s].windowStart)]
              ELSE [bus EXCEPT ![s] = Catch(@)]
    /\ UNCHANGED <<now, dbUp, entries>>
    /\ UNCHANGED <<gwVars, keyVars, guard, memo, fwd, authVars>>

\* The limit check, then RateLimitEntry.create and next().
BusCreate(s) ==
    /\ bus[s].pc = "create"
    /\ LET lim == Limiter(bus[s].lim) IN
       IF bus[s].found >= lim.max
       THEN /\ bus' = [bus EXCEPT ![s].pc = "done", ![s].status = 429]
            /\ entries' = entries
       ELSE IF dbUp
       THEN /\ entries' = [entries EXCEPT ![<<lim.service, now>>] = @ + 1]
            /\ bus' = [bus EXCEPT ![s] = CallNext(@)]
       ELSE /\ entries' = entries
            /\ bus' = [bus EXCEPT ![s] = Catch(@)]
    /\ UNCHANGED <<now, dbUp>>
    /\ UNCHANGED <<gwVars, keyVars, guard, memo, fwd, authVars>>

BusRetire(s) ==
    /\ bus[s].pc = "done"
    /\ bus' = [bus EXCEPT ![s] = IdleBus]
    /\ UNCHANGED <<now, dbUp, entries>>
    /\ UNCHANGED <<gwVars, keyVars, guard, memo, fwd, authVars>>

Tick ==
    /\ now < MaxTime
    /\ now' = now + 1
    /\ UNCHANGED <<dbUp, entries, bus>>
    /\ UNCHANGED <<gwVars, keyVars, guard, memo, fwd, authVars>>

\* The database becomes unreachable, or reachable again.
DbFlip ==
    /\ dbUp' = ~dbUp
    /\ UNCHANGED <<now, entries, bus>>
    /\ UNCHANGED <<gwVars, keyVars, guard, memo, fwd, authVars>>

\* The gateway is not part of the event-bus process, nor the event bus of the gateway's.
GwOff ==
    /\ stack = "none"
    /\ redis = FALSE
    /\ storeUp = TRUE
    /\ hits = <<>>
    /\ seen = <<>>
    /\ req = [pc |-> "off"]

BusOff ==
    /\ now = 0
    /\ dbUp = TRUE
    /\ entries = <<>>
    /\ bus = <<>>

\* The backend key resolver and guards belong to neither process.
KeyOff ==
    /\ jwksCache = <<>>
    /\ jwksCacheTime = <<>>
    /\ published = {}
    /\ issuerUp = TRUE
    /\ clock = 0
    /\ fetchSeq = 0
    /\ res = <<>>

GuardOff == guard = [pc |-> "off"]

MemoOff == memo = [on |-> FALSE]

\* Nor do the concurrent forwards and the auth service.
FwdOff == fwd = <<>>

AuthOff ==
    /\ db = <<>>
    /\ calls = <<>>
    /\ authNow = 0
    /\ hist = <<>>

RestOff == FwdOff /\ AuthOff

BusIdle ==
    /\ now = 0
    /\ dbUp = TRUE
    /\ entries = [k \in BusServices \X Times |-> 0]
    /\ bus = [s \in BusSlots |-> IdleBus]

BusInit == GwOff /\ BusIdle /\ KeyOff /\ GuardOff /\ MemoOff /\ RestOff

BusNext ==
    \/ \E s \in BusSlots : BusArrive(s)
    \/ \E s \in BusSlots : BusDestroy(s)
    \/ \E s \in BusSlots : BusFindAll(s)
    \/ \E s \in BusSlots : BusCreate(s)
    \/ \E s \in BusSlots : BusRetire(s)
    \/ Tick
    \/ DbFlip

BusSpec == BusInit /\ [][BusNext]_vars

(***************************************************************************)
(* The backend services' key resolver: fetchJwks / getPublicKey over the   *)
(* module-level jwksCache and jwksCacheTime.                               *)
(***************************************************************************)
ResSlots == {"k1", "k2"}
Kids == {"1", "2"}

\* The key sets the auth service may publish over time (key rotation).
KeySets == {{"1"}, {"2"}, {"1", "2"}}

Clocks == 1..MaxClock

\* let jwksCache = null; fetch is the id of the request that filled it (history).
NoJwks == [set |-> FALSE, keys |-> {}, fetch |-> 0]
\* let jwksCacheTime = null.
NoJwksTime == [at |-> 0, fetch |-> 0]

IdleRes ==
    [pc |-> "idle", kid |-> Null, startedAt |-> 0, fetch |-> 0, fetches |-> 0,
     missed |-> FALSE, ok |-> FALSE, error |-> Null]

\* A faulty variant of CacheFresh: the set is still used at the tick its age reaches the TTL.
CacheFreshInclusive(cache, cacheTime, t) ==
    cache.set /\ cacheTime.at # 0 /\ t - cacheTime.at <= JwksCacheTtl

\* jwksCache && jwksCacheTime && (now - jwksCacheTime < JWKS_CACHE_TTL)
CacheFresh(cache, cacheTime, t) ==
    cache.set /\ cacheTime.at # 0 /\ t - cacheTime.at < JwksCacheTtl

\* jwks.keys.find(k => k.kid === kid), and what getPublicKey returns or throws.
FindKey(r, keys) ==
    IF r.kid \in keys
    THEN [r EXCEPT !.pc = "done", !.ok = TRUE]
    ELSE [r EXCEPT !.pc = "done", !.ok = FALSE, !.missed = TRUE,
                   !.error = "Unable to retrieve public key for token verification"]

\* A faulty variant of StoreJwks: only the key set is replaced at this point.
StoreJwksKeysOnly(cacheTime, data, at, fetch) ==
    <<[set |-> TRUE, keys |-> data, fetch |-> fetch], cacheTime>>

\* jwksCache = response.data; jwksCacheTime = now;  (no await in between)
StoreJwks(cacheTime, data, at, fetch) ==
    <<[set |-> TRUE, keys |-> data, fetch |-> fetch], [at |-> at, fetch |-> fetch]>>

\* getPublicKey(kid) up to fetchJwks's await: the cached set is used while fresh,
\* otherwise the GET to the auth service is sent.
KeyResolve(s, kid) ==
    /\ res[s].pc = "idle"
    /\ LET r == [IdleRes EXCEPT !.kid = kid, !.startedAt = clock] IN
       IF CacheFresh(jwksCache, jwksCacheTime, clock)
       THEN /\ res' = [res EXCEPT ![s] = FindKey(r, jwksCache.keys)]
            /\ fetchSeq' = fetchSeq
       ELSE /\ fetchSeq < MaxFetches
            /\ fetchSeq' = fetchSeq + 1
            /\ res' = [res EXCEPT ![s] = [r EXCEPT !.pc = "fetching", !.fetches = 1,
                                                   !.fetch = fetchSeq + 1]]
    /\ UNCHANGED <<jwksCache, jwksCacheTime, published, issuerUp, clock>>
    /\ UNCHANGED <<gwVars, busVars, guard, memo, fwd, authVars>>

\* The response arrives: the cache and its time are replaced, then the kid is looked up.
KeyResponse(s) ==
    /\ res[s].pc = "fetching"
    /\ issuerUp
    /\ LET stored == StoreJwks(jwksCacheTime, published, res[s].startedAt, res[s].fetch) IN
       /\ jwksCache' = stored[1]
       /\ jwksCacheTime' = stored[2]
    /\ res' = [res EXCEPT ![s] = FindKey(@, published)]
    /\ UNCHANGED <<published, issuerUp, clock, fetchSeq>>
    /\ UNCHANGED <<gwVars, busVars, guard, memo, fwd, authVars>>

\* axios.get rejects: 'Unable to fetch JWKS', rethrown by getPublicKey.
KeyFetchFail(s) ==
    /\ res[s].pc = "fetching"
    /\ ~issuerUp
    /\ res' = [res EXCEPT ![s].pc = "done", ![s].ok = FALSE,
                          ![s].error = "Unable to retrieve public key for token verification"]
    /\ UNCHANGED <<jwksCache, jwksCacheTime, published, issuerUp, clock, fetchSeq>>
    /\ UNCHANGED <<gwVars, busVars, guard, memo, fwd, authVars>>

KeyRetire(s) ==
    /\ res[s].pc = "done"
    /\ res' = [res EXCEPT ![s] = IdleRes]
    /\ UNCHANGED <<jwksCache, jwksCacheTime, published, issuerUp, clock, fetchSeq>>
    /\ UNCHANGED <<gwVars, busVars, guard, memo, fwd, authVars>>

\* The auth service starts publishing another key set.
Rotate(keys) ==
    /\ keys # published
    /\ published' = keys
    /\ UNCHANGED <<jwksCache, jwksCacheTime, issuerUp, clock, res, fetchSeq>>
    /\ UNCHANGED <<gwVars, busVars, guard, memo, fwd, authVars>>

\* The auth service becomes unreachable, or reachable again.
IssuerFlip ==
    /\ issuerUp' = ~issuerUp
    /\ UNCHANGED <<jwksCache, jwksCacheTime, published, clock, res, fetchSeq>>
    /\ UNCHANGED <<gwVars, busVars, guard, memo, fwd, authVars>>

ClockTick ==
    /\ clock < MaxClock
    /\ clock' = clock + 1
    /\ UNCHANGED <<jwksCache, jwksCacheTime, published, issuerUp, res, fetchSeq>>
    /\ UNCHANGED <<gwVars, busVars, guard, memo, fwd, authVars>>

KeyIdle ==
    /\ jwksCache = NoJwks
    /\ jwksCacheTime = NoJwksTime
    /\ published = {"1"}
    /\ issuerUp = TRUE
    /\ clock = 1
    /\ fetchSeq = 0
    /\ res = [s \in ResSlots |-> IdleRes]

KeyInit == GwOff /\ BusOff /\ KeyIdle /\ GuardOff /\ MemoOff /\ RestOff

KeyNext ==
    \/ \E s \in ResSlots, kid \in Kids : KeyResolve(s, kid)
    \/ \E s \in ResSlots : KeyResponse(s)
    \/ \E s \in ResSlots : KeyFetchFail(s)
    \/ \E s \in ResSlots : KeyRetire(s)
    \/ \E keys \in KeySets : Rotate(keys)
    \/ IssuerFlip
    \/ ClockTick

KeySpec == KeyInit /\ [][KeyNext]_vars

(***************************************************************************)
(* The role and permission guards (hasRole / hasPermission), as the        *)
(* backends chain them after authenticate.                                 *)
(***************************************************************************)
RoleNames == {"admin", "system", "user"}
PermNames == {"read", "write"}

\* JS arrays over a set of names, up to MaxArrayLen long.
Arrays(S) == UNION {[1..n -> S] : n \in 0..MaxArrayLen}

\* req.user as the guards see it; set = FALSE is req.user null or undefined.
GuardUsers ==
    {[set |-> FALSE, roles |-> <<>>, permissions |-> <<>>]}
        \cup [set : {TRUE}, roles : Arrays(RoleNames), permissions : Arrays(PermNames)]

IdleGuard ==
    [pc |-> "idle", kind |-> Null, required |-> <<>>,
     user |-> [set |-> FALSE, roles |-> <<>>, permissions |-> <<>>],
     status |-> 0, nexts |-> 0, responses |-> 0]

\* Array.prototype.includes
Includes(arr, x) == \E i \in 1..Len(arr) : arr[i] = x

\* requiredRoles.some(role => req.user.roles.includes(role))
hasRequiredRole(requiredRoles, user) ==
    \E i \in 1..Len(requiredRoles) : Includes(user.roles, requiredRoles[i])

\* A faulty variant of hasRequiredPermissions: one held permission is enough.
hasSomeRequiredPermission(requiredPermissions, user) ==
    \E i \in 1..Len(requiredPermissions) :
        Includes(user.permissions, requiredPermissions[i])

\* requiredPermissions.every(permission => req.user.permissions.includes(permission))
hasRequiredPermissions(requiredPermissions, user) ==
    \A i \in 1..Len(requiredPermissions) :
        Includes(user.permissions, requiredPermissions[i])

\* res.status(code).json(formatError(...)), returned without calling next.
Deny(g, code) == [g EXCEPT !.pc = "done", !.status = code, !.responses = @ + 1]

\* The middleware hasRole(roles) returns.
hasRole(g) ==
    IF ~g.user.set THEN Deny(g, 401)
    ELSE IF ~hasRequiredRole(g.required, g.user) THEN Deny(g, 403)
    ELSE [g EXCEPT !.pc = "done", !.nexts = @ + 1]

\* The middleware hasPermission(permissions) returns.
hasPermission(g) ==
    IF ~g.user.set THEN Deny(g, 401)
    ELSE IF ~hasRequiredPermissions(g.required, g.user) THEN Deny(g, 403)
    ELSE [g EXCEPT !.pc = "done", !.nexts = @ + 1]

\* A request reaches a guard built with the given requirement.
GuardArrive(kind, required, user) ==
    /\ guard.pc = "idle"
    /\ guard' = [IdleGuard EXCEPT !.pc = "check", !.kind = kind,
                                  !.required = required, !.user = user]
    /\ UNCHANGED <<gwVars, busVars, keyVars, memo, fwd, authVars>>

GuardCheck ==
    /\ guard.pc = "check"
    /\ guard' = IF guard.kind = "role" THEN hasRole(guard) ELSE hasPermission(guard)
    /\ UNCHANGED <<gwVars, busVars, keyVars, memo, fwd, authVars>>

GuardRetire ==
    /\ guard.pc = "done"
    /\ guard' = IdleGuard
    /\ UNCHANGED <<gwVars, busVars, keyVars, memo, fwd, authVars>>

GuardInit == GwOff /\ BusOff /\ KeyOff /\ MemoOff /\ guard = IdleGuard /\ RestOff

GuardNext ==
    \/ /\ guard.pc = "idle"
       /\ \E required \in Arrays(RoleNames), user \in GuardUsers :
              GuardArrive("role", required, user)
    \/ /\ guard.pc = "idle"
       /\ \E required \in Arrays(PermNames), user \in GuardUsers :
              GuardArrive("permission", required, user)
    \/ GuardCheck
    \/ GuardRetire

GuardSpec == GuardInit /\ [][GuardNext]_vars

(***************************************************************************)
(* Concurrent forwards: every route's chain ends in its own                *)
(* createProxyMiddleware, which sends the request on as soon as it is      *)
(* reached.                                                                *)
(***************************************************************************)
FwdSlots == 1..MaxInbound

\* The targets of the route table.
Targets == {routes[i].key : i \in 1..Len(routes)}

IdleFwd == [pc |-> "idle", target |-> Null]

InFlight(t) == Cardinality({s \in FwdSlots : fwd[s].pc = "upstream" /\ fwd[s].target = t})

\* A request admitted by its chain reaches the proxy middleware: the call to the
\* target is opened (no agent, queue or counter is configured).
FwdProxy(s, t) ==
    /\ fwd[s].pc = "idle"
    /\ fwd' = [fwd EXCEPT ![s] = [pc |-> "upstream", target |-> t]]
    /\ UNCHANGED <<gwVars, busVars, keyVars, guard, memo, authVars>>

\* The target answers, or the call fails or times out.
FwdRespond(s) ==
    /\ fwd[s].pc = "upstream"
    /\ fwd' = [fwd EXCEPT ![s] = IdleFwd]
    /\ UNCHANGED <<gwVars, busVars, keyVars, guard, memo, authVars>>

FwdInit ==
    /\ GwOff /\ BusOff /\ KeyOff /\ GuardOff /\ MemoOff /\ AuthOff
    /\ fwd = [s \in FwdSlots |-> IdleFwd]

FwdNext ==
    \/ \E s \in FwdSlots, t \in Targets : FwdProxy(s, t)
    \/ \E s \in FwdSlots : FwdRespond(s)

FwdSpec == FwdInit /\ [][FwdNext]_vars

(***************************************************************************)
(* The auth service: login, forgotPassword, resetPassword, changePassword  *)
(* and the authenticate middleware over one user's row.  Every handler     *)
(* reads the row into an instance, awaits, then saves the fields it        *)
(* changed.                                                                *)
(***************************************************************************)
AuthSlots == {"a1", "a2"}
Passwords == {"p1", "p2"}
ResetTokens == 1..MaxResetTokens

\* bcrypt.hash / bcrypt.compare
hash(password) == <<"bcrypt", password>>
compare(password, hashed) == hashed = hash(password)

\* The user's row after registration and email verification (0: null).
NewUser ==
    [password |-> hash("p1"), isVerified |-> TRUE, active |-> TRUE,
     loginAttempts |-> 0, accountLocked |-> FALSE, lockUntil |-> 0,
     resetPasswordToken |-> 0, resetPasswordExpires |-> 0, passwordChangedAt |-> 0]

NoAccess == [iat |-> 0, ver |-> 0]

IdleCall ==
    [kind |-> Null, pc |-> "idle", password |-> Null, newPassword |-> Null,
     reset |-> 0, access |-> NoAccess, user |-> NewUser, status |-> 0,
     stale |-> FALSE, lockedAtIssue |-> FALSE]

\* user.save(): Sequelize writes the attributes the instance changed since it was read.
Save(row, read, inst) ==
    [f \in DOMAIN row |-> IF inst[f] # read[f] THEN inst[f] ELSE row[f]]

\* User.prototype.isAccountLocked
isAccountLocked(user, t) ==
    IF ~user.accountLocked THEN FALSE
    ELSE IF user.lockUntil # 0 /\ t > user.lockUntil THEN FALSE
    ELSE TRUE

\* The response is written; the handler's instance and inputs are dropped.
Finish(c, status) ==
    [c EXCEPT !.pc = "done", !.status = status, !.user = NewUser,
              !.password = Null, !.newPassword = Null]

PasswordChanges == hist.pwdVersion
    + Cardinality({s \in AuthSlots : calls[s].pc \in {"resetSave", "changeSave"}})

\* login: User.findOne({where: {email}}).
LoginFind(s, password) ==
    /\ calls[s].pc = "idle"
    /\ db.loginAttempts <= MaxAttempts
    /\ Cardinality(hist.issued) + Cardinality({t \in AuthSlots : calls[t].kind = "login"
                                                  /\ calls[t].pc # "done"}) < MaxIssued + 1
    /\ calls' = [calls EXCEPT ![s] = [IdleCall EXCEPT !.kind = "login", !.pc = "compare",
                                                      !.password = password, !.user = db]]
    /\ UNCHANGED <<db, authNow, hist>>
    /\ UNCHANGED <<gwVars, busVars, keyVars, guard, memo, fwd>>

\* login after bcrypt.compare: count the failure and lock, or refuse while locked, or
\* clear the lock and the count; then user.save().
LoginSave(s) ==
    /\ calls[s].pc = "compare"
    /\ LET c == calls[s]
           user == c.user
       IN IF ~user.isVerified
          THEN /\ calls' = [calls EXCEPT ![s] = Finish(c, 403)]
               /\ db' = db
          ELSE IF ~compare(c.password, user.password)
          THEN LET attempts == user.loginAttempts + 1
                   inst == IF attempts >= MaxAttempts
                           THEN [user EXCEPT !.loginAttempts = attempts,
                                             !.accountLocked = TRUE,
                                             !.lockUntil = authNow + LockWindow]
                           ELSE [user EXCEPT !.loginAttempts = attempts]
               IN /\ db' = Save(db, user, inst)
                  /\ calls' = [calls EXCEPT ![s] = Finish(c, 401)]
          ELSE IF user.accountLocked /\ user.lockUntil # 0 /\ user.lockUntil > authNow
          THEN /\ calls' = [calls EXCEPT ![s] = Finish(c, 403)]
               /\ db' = db
          ELSE LET unlocked == IF user.accountLocked
                               THEN [user EXCEPT !.accountLocked = FALSE, !.lockUntil = 0]
                               ELSE user
                   inst == [unlocked EXCEPT !.loginAttempts = 0]
               IN /\ db' = Save(db, user, inst)
                  /\ calls' = [calls EXCEPT ![s].pc = "tokens"]
    /\ UNCHANGED <<authNow, hist>>
    /\ UNCHANGED <<gwVars, busVars, keyVars, guard, memo, fwd>>

\* login: generateTokens(user) and the 200 response carrying the access token.
LoginRespond(s) ==
    /\ calls[s].pc = "tokens"
    /\ calls' = [calls EXCEPT ![s] =
                    [Finish(@, 200) EXCEPT
                        !.access = [iat |-> authNow, ver |-> hist.pwdVersion],
                        !.lockedAtIssue = db.accountLocked /\ db.lockUntil > authNow]]
    /\ hist' = [hist EXCEPT !.issued = @ \cup {[iat |-> authNow, ver |-> hist.pwdVersion]}]
    /\ UNCHANGED <<db, authNow>>
    /\ UNCHANGED <<gwVars, busVars, keyVars, guard, memo, fwd>>

\* forgotPassword: User.findOne, then resetToken = uuidv4().
ForgotFind(s) ==
    /\ calls[s].pc = "idle"
    /\ hist.nextToken <= MaxResetTokens
    /\ calls' = [calls EXCEPT ![s] = [IdleCall EXCEPT !.kind = "forgotPassword",
                                                      !.pc = "forgotSave", !.user = db,
                                                      !.reset = hist.nextToken]]
    /\ hist' = [hist EXCEPT !.nextToken = @ + 1]
    /\ UNCHANGED <<db, authNow>>
    /\ UNCHANGED <<gwVars, busVars, keyVars, guard, memo, fwd>>

\* forgotPassword: the token and its expiry (one hour on) are saved, the mail is sent.
ForgotSave(s) ==
    /\ calls[s].pc = "forgotSave"
    /\ LET c == calls[s]
           inst == [c.user EXCEPT !.resetPasswordToken = c.reset,
                                  !.resetPasswordExpires = authNow + ResetTtl]
       IN /\ db' = Save(db, c.user, inst)
          /\ calls' = [calls EXCEPT ![s] = Finish(c, 200)]
    /\ UNCHANGED <<authNow, hist>>
    /\ UNCHANGED <<gwVars, busVars, keyVars, guard, memo, fwd>>

\* resetPassword: User.findOne({where: {resetPasswordToken: token,
\* resetPasswordExpires: {gt: new Date()}}}); 400 when no row is found.
ResetFind(s, token, password) ==
    /\ calls[s].pc = "idle"
    /\ token < hist.nextToken
    /\ PasswordChanges < MaxPasswordChanges
    /\ LET c == [IdleCall EXCEPT !.kind = "resetPassword", !.reset = token,
                                 !.newPassword = password]
       IN calls' = [calls EXCEPT ![s] =
                       IF db.resetPasswordToken = token /\ db.resetPasswordExpires > authNow
                       THEN [c EXCEPT !.pc = "resetSave", !.user = db]
                       ELSE Finish(c, 400)]
    /\ UNCHANGED <<db, authNow, hist>>
    /\ UNCHANGED <<gwVars, busVars, keyVars, guard, memo, fwd>>

\* resetPassword after bcrypt.hash: the new password is saved, the token cleared,
\* the attempts and the lock reset.
ResetSave(s) ==
    /\ calls[s].pc = "resetSave"
    /\ LET c == calls[s]
           inst == [c.user EXCEPT !.password = hash(c.newPassword),
                                  !.resetPasswordToken = 0,
                                  !.resetPasswordExpires = 0,
                                  !.loginAttempts = 0,
                                  !.accountLocked = FALSE]
       IN /\ db' = Save(db, c.user, inst)
          /\ calls' = [calls EXCEPT ![s] = Finish(c, 200)]
          /\ hist' = [hist EXCEPT !.used[c.reset] = @ + 1, !.pwdVersion = @ + 1]
    /\ UNCHANGED authNow
    /\ UNCHANGED <<gwVars, busVars, keyVars, guard, memo, fwd>>

\* changePassword: User.findByPk(req.user.id).
ChangeFind(s, currentPassword, newPassword) ==
    /\ calls[s].pc = "idle"
    /\ PasswordChanges < MaxPasswordChanges
    /\ calls' = [calls EXCEPT ![s] = [IdleCall EXCEPT !.kind = "changePassword",
                                                      !.pc = "changeSave", !.user = db,
                                                      !.password = currentPassword,
                                                      !.newPassword = newPassword]]
    /\ UNCHANGED <<db, authNow, hist>>
    /\ UNCHANGED <<gwVars, busVars, keyVars, guard, memo, fwd>>

\* changePassword after bcrypt.compare and bcrypt.hash: user.password is saved.
ChangeSave(s) ==
    /\ calls[s].pc = "changeSave"
    /\ LET c == calls[s] IN
       IF ~compare(c.password, c.user.password)
       THEN /\ calls' = [calls EXCEPT ![s] = Finish(c, 401)]
            /\ UNCHANGED <<db, hist>>
       ELSE /\ db' = Save(db, c.user, [c.user EXCEPT !.password = hash(c.newPassword)])
            /\ calls' = [calls EXCEPT ![s] = Finish(c, 200)]
            /\ hist' = [hist EXCEPT !.pwdVersion = @ + 1]
    /\ UNCHANGED authNow
    /\ UNCHANGED <<gwVars, busVars, keyVars, guard, memo, fwd>>

\* authenticate(): a request carrying an access token the service issued.
AuthArrive(s, token) ==
    /\ calls[s].pc = "idle"
    /\ token \in hist.issued
    /\ calls' = [calls EXCEPT ![s] = [IdleCall EXCEPT !.kind = "authenticate",
                                                      !.pc = "authCheck",
                                                      !.access = token]]
    /\ UNCHANGED <<db, authNow, hist>>
    /\ UNCHANGED <<gwVars, busVars, keyVars, guard, memo, fwd>>

\* authenticate() after verifyToken and User.findByPk: inactive 401, locked 403,
\* password changed after the token's iat 401, else req.user is set and next() runs
\* (status 0: no response written).
AuthCheck(s) ==
    /\ calls[s].pc = "authCheck"
    /\ LET c == [calls[s] EXCEPT !.stale = (calls[s].access.ver < hist.pwdVersion)]
           user == db
       IN calls' = [calls EXCEPT ![s] =
                       IF ~user.active THEN Finish(c, 401)
                       ELSE IF isAccountLocked(user, authNow) THEN Finish(c, 403)
                       ELSE IF user.passwordChangedAt # 0
                               /\ c.access.iat < user.passwordChangedAt
                       THEN Finish(c, 401)
                       ELSE Finish(c, 0)]
    /\ UNCHANGED <<db, authNow, hist>>
    /\ UNCHANGED <<gwVars, busVars, keyVars, guard, memo, fwd>>

AuthRetire(s) ==
    /\ calls[s].pc = "done"
    /\ calls' = [calls EXCEPT ![s] = IdleCall]
    /\ UNCHANGED <<db, authNow, hist>>
    /\ UNCHANGED <<gwVars, busVars, keyVars, guard, memo, fwd>>

AuthTick ==
    /\ authNow < MaxAuthTime
    /\ authNow' = authNow + 1
    /\ UNCHANGED <<db, calls, hist>>
    /\ UNCHANGED <<gwVars, busVars, keyVars, guard, memo, fwd>>

AuthInit ==
    /\ GwOff /\ BusOff /\ KeyOff /\ GuardOff /\ MemoOff /\ FwdOff
    /\ db = NewUser
    /\ calls = [s \in AuthSlots |-> IdleCall]
    /\ authNow = 1
    /\ hist = [issued |-> {}, pwdVersion |-> 0, nextToken |-> 1,
               used |-> [t \in ResetTokens |-> 0]]

AuthNext ==
    \/ \E s \in AuthSlots, password \in Passwords : LoginFind(s, password)
    \/ \E s \in AuthSlots : LoginSave(s)
    \/ \E s \in AuthSlots : LoginRespond(s)
    \/ \E s \in AuthSlots : ForgotFind(s)
    \/ \E s \in AuthSlots : ForgotSave(s)
    \/ \E s \in AuthSlots, token \in ResetTokens, password \in Passwords :
          ResetFind(s, token, password)
    \/ \E s \in AuthSlots : ResetSave(s)
    \/ \E s \in AuthSlots, cur \in Passwords, new \in Passwords : ChangeFind(s, cur, new)
    \/ \E s \in AuthSlots : ChangeSave(s)
    \/ \E s \in AuthSlots, ver \in 0..MaxPasswordChanges, iat \in 1..MaxAuthTime :
          AuthArrive(s, [iat |-> iat, ver |-> ver])
    \/ \E s \in AuthSlots : AuthCheck(s)
    \/ \E s \in AuthSlots : AuthRetire(s)
    \/ AuthTick

AuthSpec == AuthInit /\ [][AuthNext]_vars

\* The routing setup on its own: requests as Express hands them to the route chains.
Init == GwInit("routes") /\ BusOff /\ KeyOff /\ GuardOff /\ MemoOff /\ RestOff

Next ==
    \/ \E rq \in Requests, ip \in IPs, tok \in Tokens, hdr \in ClientHeaders :
          Receive(rq, ip, tok, hdr)
    \/ RateLimit
    \/ Authenticate
    \/ SetTarget
    \/ Proxy
    \/ \E status \in BackendStatuses : BackendRespond(status)
    \/ \E code \in UpstreamErrors, status \in ProxyErrorStatuses : UpstreamFail(code, status)
    \/ FinalHandler
    \/ Retire
    \/ \E class \in Classes : WindowRoll(class)
    \/ \E ip \in IPs : KeyExpire(ip)
    \/ RedisFlip

Spec == Init /\ [][Next]_vars

\* The routing setup with the resolution of the run's first request kept.
RouteInit ==
    /\ GwInit("routes") /\ BusOff /\ KeyOff /\ GuardOff /\ RestOff
    /\ memo = [on |-> TRUE, set |-> FALSE, method |-> Null, path |-> <<>>,
               resolution |-> Resolution(RouteLayers, 0)]

\* Route resolution does not read the credential or the headers: one anonymous and
\* one signed-in client send the requests.
RouteNext ==
    \/ \E rq \in Requests, ip \in IPs, tok \in {"none", "valid"} :
          Receive(rq, ip, tok, IdleReq.headers)
    \/ RateLimit
    \/ Authenticate
    \/ SetTarget
    \/ Proxy
    \/ \E status \in BackendStatuses : BackendRespond(status)
    \/ \E code \in UpstreamErrors, status \in ProxyErrorStatuses : UpstreamFail(code, status)
    \/ FinalHandler
    \/ Retire
    \/ \E class \in Classes : WindowRoll(class)
    \/ \E ip \in IPs : KeyExpire(ip)
    \/ RedisFlip

RouteSpec == RouteInit /\ [][RouteNext]_vars

\* The application as the server file builds it.
AppInit == GwInit("app") /\ BusOff /\ KeyOff /\ GuardOff /\ MemoOff /\ RestOff

AppNext ==
    \/ \E rq \in Requests, ip \in IPs, tok \in Tokens, hdr \in ClientHeaders :
          Receive(rq, ip, tok, hdr)
    \/ Health
    \/ Fallback
    \/ Retire

AppSpec == AppInit /\ [][AppNext]_vars

(***************************************************************************)
(* Properties of the gateway.                                              *)
(***************************************************************************)
Registered(r) == FirstMatch(RouteLayers, r.method, r.path) # 0

Ran(r, stage) == \E i \in 1..Len(r.stages) : r.stages[i] = stage

TokenChecksPass(t) ==
    /\ t.raw = "jwt"
    /\ t.kid \in PublishedKids
    /\ t.alg \in Algorithms
    /\ t.signedBy = t.kid
    /\ t.iss = Issuer
    /\ t.aud = Audience
    /\ ~t.expired

\* C1: a request that the rate-limit, authentication or authorization gate rejected
\* has made no outbound call and has not entered the proxy stage.
C1_RejectedNeverForwarded ==
    req.by \in {"rateLimiter", "authenticate", "authorize"} =>
        ~req.out.sent /\ ~Ran(req, "forward") /\ req.pc = "done"

C1_Witness ==
    /\ req.by = "authenticate"
    /\ req.status = 401
    /\ req.stages = <<"rateLimit">>
    /\ ~req.out.sent

\* C2: a finished request that carried a verifiable token to a registered route was
\* forwarded with X-User-Id set to the token's sub and was answered by the backend,
\* not by the gateway itself.
C2_ValidTokenForwarded ==
    (req.pc = "done" /\ Registered(req) /\ TokenChecksPass(Token(req))
       /\ req.status # 429 /\ ~req.storeErr) =>
        /\ req.out.sent
        /\ req.out.xUserId = Token(req).sub
        /\ req.by = "backend"

\* C3: a forwarded request went through rate-limit, authenticate, authorize and
\* forward, in this order.
C3_StagesInOrder ==
    req.out.sent =>
        \E i, j, k, l \in 1..Len(req.stages) :
            /\ i < j /\ j < k /\ k < l
            /\ req.stages[i] = "rateLimit"
            /\ req.stages[j] = "authenticate"
            /\ req.stages[k] = "authorize"
            /\ req.stages[l] = "forward"

\* C4: req.user is set only when the token's key was resolved and its signature,
\* algorithm, issuer, audience and expiry checks all passed; otherwise it is null.
C4_IdentityOnlyAfterChecks ==
    req.user # NoUser =>
        /\ TokenChecksPass(Token(req))
        /\ Ran(req, "authenticate")
        /\ req.user.id = Token(req).sub

C4_Witness ==
    /\ req.user # NoUser
    /\ req.pc = "proxy"

\* C5: a request forwarded without an Identity carries neither X-User-Id nor
\* X-User-Roles, whatever the client sent; with an Identity they are the Identity's.
C5_TrustHeadersOnlyFromIdentity ==
    req.out.sent =>
        IF req.user = NoUser
        THEN req.out.xUserId = Null /\ req.out.xUserRoles = <<>>
        ELSE req.out.xUserId = req.user.id

\* C6: within a window the first Max(class) requests of a class are let through and
\* every later one is answered 429; the count starts again when the window rolls.
C6_FixedWindow ==
    (req.ord > 0 /\ ~req.storeErr) =>
        IF req.ord <= Max(layers[req.layer].class)
        THEN Ran(req, "rateLimit") /\ req.by # "rateLimiter"
        ELSE req.by = "rateLimiter" /\ req.status = 429 /\ ~Ran(req, "rateLimit")

\* C9: a request whose limiter could not reach the counter store is passed on to the
\* next stage and is answered neither 429 nor 5xx by the gateway.
C9_FailOpen ==
    req.storeErr =>
        /\ Ran(req, "rateLimit")
        /\ ~(req.by \in {"rateLimiter", "errorPath"} /\ req.status \in {429, 500})

\* C10: a request counted in one class leaves the counter of every other class of
\* the same client unchanged.
C10_ClassesAreSeparate ==
    [][\A c \in Classes :
         (req.pc = "rateLimit" /\ req'.pc # "rateLimit" /\ layers[req.layer].class = c) =>
             \A d \in Classes \ {c} :
                 hits'[StoreKey(d, req.ip)] = hits[StoreKey(d, req.ip)]]_vars

\* C15: once authenticate has run on a request whose token is signed by a published
\* key with an allowed algorithm, the expected issuer and audience and is unexpired,
\* the request was not answered 401 and req.user has the token's sub and roles.
C15_VerifiableTokenYieldsIdentity ==
    (TokenChecksPass(Token(req)) /\ req.pc \in {"target", "proxy", "upstream", "done"}
       /\ req.layer # 0 /\ req.by \notin {"rateLimiter", "errorPath"}) =>
        /\ req.by # "authenticate"
        /\ Ran(req, "authenticate")
        /\ req.user.id = Token(req).sub
        /\ req.user.roles = (IF Token(req).hasRoles THEN Token(req).roles ELSE <<>>)

C15_Witness ==
    /\ req.token = "admin"
    /\ req.pc = "target"
    /\ req.user = [id |-> "u2", roles |-> <<"admin", "user">>]

\* C16: on a route that requires authentication, a request whose token is missing,
\* malformed, signed by another key, of a wrong algorithm, issuer or audience,
\* expired, or of an unresolvable kid is answered 401 with a formatError body, once,
\* and reaches no stage after authenticate.
C16_AuthFailureIs401Once ==
    (req.layer # 0 /\ layers[req.layer].auth /\ ~TokenChecksPass(Token(req))
       /\ req.pc \in {"target", "proxy", "upstream", "done"}
       /\ req.by \notin {"rateLimiter", "errorPath"}) =>
        /\ req.pc = "done"
        /\ req.status = 401
        /\ req.body = "formatError"
        /\ req.responses = 1
        /\ req.stages = <<"rateLimit">>
        /\ ~req.out.sent

C16_Witness ==
    /\ req.token = "unknownKid"
    /\ req.layer # 0
    /\ layers[req.layer].auth
    /\ req.pc = "done"
    /\ req.status = 401
    /\ req.responses = 1

\* A route rule matches a request: same method, same number of segments, each
\* segment equal or a named parameter.
RuleMatches(rule, r) ==
    /\ rule.method = r.method
    /\ Len(rule.path) = Len(r.path)
    /\ \A k \in 1..Len(rule.path) : rule.path[k] = r.path[k] \/ rule.path[k] \in Params

NoRouteRule(r) == \A i \in 1..Len(RouteLayers) : ~RuleMatches(RouteLayers[i], r)

OwnEndpoint(r) == r.method = "GET" /\ r.path \in {<<"health">>, <<"metrics">>}

\* C18: a request that matches no rule of the route table (and is not one of the
\* gateway's own endpoints) is answered 404, once, and is never sent to a backend.
C18_UnmatchedIs404 ==
    (req.pc # "idle" /\ NoRouteRule(req) /\ ~OwnEndpoint(req)) =>
        /\ ~req.out.sent
        /\ req.stages = <<>>
        /\ req.pc = "done" => req.status = 404 /\ req.responses = 1

C18_Witness ==
    /\ req.path = <<"api", "nowhere">>
    /\ req.pc = "done"
    /\ req.status = 404
    /\ req.by = "fallback"

\* C19: the chain a request runs is that of the first rule, in table order, matching
\* its method and path: no earlier rule matches, and the target it is sent to, the
\* authentication that can reject it and the limiter that counts it are that rule's.
C19_FirstMatchWins ==
    (req.pc # "idle" /\ req.layer # 0) =>
        LET rule == RouteLayers[req.layer] IN
        /\ RuleMatches(rule, req)
        /\ \A j \in 1..(req.layer - 1) : ~RuleMatches(RouteLayers[j], req)
        /\ req.out.sent => req.out.target = rule.target
        /\ req.by = "authenticate" => rule.auth
        /\ req.by = "rateLimiter" => req.totalHits > Max(rule.class)

\* GET /api/profiles/me is handled by the earlier rule GET /api/profiles/:id (no
\* authentication), not by the later rule GET /api/profiles/me.
C19_Witness ==
    /\ req.method = "GET"
    /\ req.path = <<"api", "profiles", "me">>
    /\ req.token = "none"
    /\ req.out.sent
    /\ req.out.target = "profile"

JsonParse(text) ==
    SelectSeq(SubSeq(text, 2, Len(text) - 1), LAMBDA x : x # ",")

\* C21: the X-User-Roles header of a request forwarded with an Identity, read back as
\* JSON, is the roles claim of the verified token: the same roles, nothing added,
\* dropped or changed.
C21_RolesRoundTrip ==
    (req.out.sent /\ req.user # NoUser) =>
        /\ Len(req.out.xUserRoles) >= 2
        /\ JsonParse(req.out.xUserRoles)
               = (IF Token(req).hasRoles THEN Token(req).roles ELSE <<>>)

C21_Witness ==
    /\ req.out.sent
    /\ req.token = "admin"
    /\ req.out.xUserRoles = <<"[", "admin", ",", "user", "]">>
    /\ req.headers.xUserRoles = <<"[", "admin", "]">>

\* The request's method and path are, literally, those of a rule declared auth: true.
DeclaredProtected(r) ==
    \E i \in 1..Len(RouteLayers) :
        /\ RouteLayers[i].auth
        /\ RouteLayers[i].method = r.method
        /\ RouteLayers[i].path = r.path

\* C25: a request whose method and path are those of a rule declared auth: true is
\* forwarded only with req.user established.
C25_ProtectedNeverCaptured ==
    (req.out.sent /\ DeclaredProtected(req)) => req.user # NoUser

\* C27: on a route that does not require authentication a request whose token fails
\* verification is not answered by authenticate: req.user is null, next is called
\* once, and what is forwarded is what a request without token would forward.
C27_OptionalAuthNeverRejects ==
    (req.layer # 0 /\ ~layers[req.layer].auth
       /\ Token(req).raw # "none" /\ ~TokenChecksPass(Token(req))
       /\ req.pc \in {"target", "proxy", "upstream", "done"}
       /\ req.by \notin {"rateLimiter", "errorPath"}) =>
        /\ req.by # "authenticate"
        /\ req.status # 401
        /\ req.user = NoUser
        /\ Cardinality({i \in 1..Len(req.stages) : req.stages[i] = "authenticate"}) = 1
        /\ req.out.sent =>
               req.out = Outbound([req EXCEPT !.token = "none", !.user = NoUser],
                                  layers[req.layer].target)

C27_Witness ==
    /\ req.token = "expired"
    /\ req.path = <<"api", "auth", "login">>
    /\ req.out.sent
    /\ req.user = NoUser

\* C22: a forwarded call that is refused or times out is tried once and answered 503
\* with a structured body that names no host.
C22_UpstreamUnavailableIs503 ==
    req.by = "proxyError" =>
        /\ req.attempts = 1
        /\ req.status = 503
        /\ req.body \in {"json", "formatError"}

\* C24: on a route that requires authentication, a request carrying the unexpired
\* access token generateTokens issued for a user is not answered 401 and gets the
\* user's Identity.
C24_IssuedTokenAccepted ==
    (req.layer # 0 /\ layers[req.layer].auth
       /\ Token(req) = generateTokens(LoginUser)
       /\ req.pc \in {"target", "proxy", "upstream", "done"}
       /\ req.by \notin {"rateLimiter", "errorPath"}) =>
        /\ req.by # "authenticate"
        /\ req.user.id = LoginUser.id

\* The fallback is registered before the routes: no request gets past it.
AppNeverReachesRoutes == req.pc # "idle" => req.layer \in {1, 2}

(***************************************************************************)
(* Properties of the key resolver.                                         *)
(***************************************************************************)
Fetching == {s \in ResSlots : res[s].pc = "fetching"}

\* C11: a resolution that ends because the kid is not in the key set has sent exactly
\* one jwks.json request of its own, also when the cached set had not expired.
C11_OneForcedRefetch ==
    \A s \in ResSlots :
        (res[s].pc = "done" /\ res[s].missed) => res[s].fetches = 1

\* C12: at most one jwks.json request is outstanding at any time.
C12_SingleFlight == Cardinality(Fetching) <= 1

\* C13: a resolution sends a jwks.json request exactly when no key set is cached or
\* the cached one was requested JwksCacheTtl or more ticks ago, and a request is sent
\* by nothing else.
C13_NetworkOnRefreshOnly ==
    [][LET fresh == jwksCache.set /\ clock - jwksCacheTime.at < JwksCacheTtl IN
       /\ \A s \in ResSlots :
              (res[s].pc = "idle" /\ res'[s].pc # "idle") =>
                  /\ res'[s].pc = "fetching" <=> ~fresh
                  /\ res'[s].fetches = (IF fresh THEN 0 ELSE 1)
       /\ fetchSeq' # fetchSeq =>
              \E s \in ResSlots : res[s].pc = "idle" /\ res'[s].pc = "fetching" /\ ~fresh]_vars

\* One call was answered from the cached set, and a later one, the set having reached
\* its TTL, has sent a request.
C13_Witness ==
    \E s, t \in ResSlots :
        /\ res[s].pc = "done" /\ res[s].ok /\ res[s].fetches = 0
        /\ res[t].pc = "fetching"
        /\ jwksCache.set
        /\ clock - jwksCacheTime.at >= JwksCacheTtl

\* C14: the cached key set and its time always come from the same response; the key
\* set changes only by being replaced by a response's whole set; a failed request
\* leaves both as they were.
C14_AtomicSwap ==
    [][/\ jwksCache'.fetch = jwksCacheTime'.fetch
       /\ jwksCache' # jwksCache =>
              \E s \in ResSlots :
                  /\ res[s].pc = "fetching" /\ res'[s].pc = "done"
                  /\ jwksCache' = [set |-> TRUE, keys |-> published, fetch |-> res[s].fetch]
                  /\ jwksCacheTime' = [at |-> res[s].startedAt, fetch |-> res[s].fetch]
       /\ jwksCacheTime' # jwksCacheTime => jwksCache'.fetch # jwksCache.fetch
       /\ \A s \in ResSlots :
              (res[s].pc = "fetching" /\ res'[s].pc = "done" /\ ~issuerUp) =>
                  jwksCache' = jwksCache /\ jwksCacheTime' = jwksCacheTime]_vars

\* The cache has been replaced at least twice, by another key set, and a request has
\* failed since.
C14_Witness ==
    /\ jwksCache.fetch >= 2
    /\ jwksCache.keys = {"1", "2"}
    /\ \E s \in ResSlots :
           res[s].pc = "done" /\ res[s].fetches = 1 /\ ~res[s].ok /\ ~res[s].missed

\* C26: jwksCacheTime never goes back, and the cached key set is never replaced by
\* the response of a request sent before the request whose response is cached.
C26_CacheNeverGoesBack ==
    [][/\ jwksCacheTime'.at >= jwksCacheTime.at
       /\ jwksCache'.fetch >= jwksCache.fetch]_vars

(***************************************************************************)
(* Properties of the guards.                                               *)
(***************************************************************************)
Elems(arr) == {arr[i] : i \in 1..Len(arr)}

\* C17: with no req.user the guard answers 401; otherwise hasPermission calls next
\* iff the user's permissions contain every required one, hasRole iff the user holds
\* at least one allowed role; when it does not call next it answers 403, and it never
\* does both.
C17_GuardAdmitsIff ==
    guard.pc = "done" =>
        LET admits == IF guard.kind = "permission"
                      THEN Elems(guard.required) \subseteq Elems(guard.user.permissions)
                      ELSE Elems(guard.required) \cap Elems(guard.user.roles) # {}
        IN IF ~guard.user.set
           THEN guard.status = 401 /\ guard.nexts = 0 /\ guard.responses = 1
           ELSE IF admits
           THEN guard.nexts = 1 /\ guard.responses = 0 /\ guard.status = 0
           ELSE guard.status = 403 /\ guard.nexts = 0 /\ guard.responses = 1

\* A user holding one of two required permissions is refused.
C17_Witness ==
    /\ guard.pc = "done"
    /\ guard.kind = "permission"
    /\ guard.required = <<"read", "write">>
    /\ guard.user.set
    /\ guard.user.permissions = <<"write">>
    /\ guard.status = 403

(***************************************************************************)
(* Properties of concurrent forwarding.                                    *)
(***************************************************************************)
\* C23: the calls in flight to one target are bounded whatever the number of inbound
\* requests: of the MaxInbound requests the gateway handles at once, a bound holds
\* back at least one, so they are never all in flight to the same target.
C23_InFlightBounded == \A t \in Targets : InFlight(t) < MaxInbound

(***************************************************************************)
(* Auth service properties.                                                *)
(***************************************************************************)
\* The row says the account is locked and the lock has not run out.
LockedNow == db.accountLocked /\ db.lockUntil > authNow

NoTokensWhileLocked ==
    \A s \in AuthSlots :
        (calls[s].kind = "login" /\ calls[s].pc = "done" /\ calls[s].status = 200)
            => ~calls[s].lockedAtIssue

LockLiftedOnlyByLoginOrReset ==
    (db.accountLocked /\ ~db'.accountLocked) =>
        \E s \in AuthSlots :
            \/ calls[s].pc = "compare" /\ calls'[s].pc = "tokens" /\ db.lockUntil <= authNow
            \/ calls[s].pc = "resetSave" /\ calls'[s].pc = "done" /\ calls'[s].status = 200

LockedMeansAttempts == db.accountLocked => db.loginAttempts >= MaxAttempts

\* C28: while accountLocked is true and lockUntil is in the future login issues no
\* tokens, also under concurrent logins; the lock is lifted only by a correct-password
\* login after lockUntil has passed or by a successful resetPassword; and every state
\* with accountLocked true has loginAttempts at or above maxAttempts.
C28_LockHolds ==
    /\ [](NoTokensWhileLocked /\ LockedMeansAttempts)
    /\ [][LockLiftedOnlyByLoginOrReset]_vars

\* C29: a reset token issued by forgotPassword changes the password at most once,
\* also when two resetPassword requests carrying it run concurrently.
C29_ResetTokenUsedOnce == \A t \in ResetTokens : hist.used[t] <= 1

\* C30: after changePassword or resetPassword changed the password, authenticate
\* answers 401 to every access token issued before the change.
C30_OldTokensRejected ==
    \A s \in AuthSlots :
        (calls[s].kind = "authenticate" /\ calls[s].pc = "done" /\ calls[s].stale)
            => calls[s].status = 401

(***************************************************************************)
(* Properties of the event bus's limiter.                                  *)
(***************************************************************************)
\* C7: whatever the interleaving, the requests admitted inside one window (the rows
\* of the key not older than the window) never outnumber the class maximum.
C7_NoOverAdmission ==
    (\A s \in BusSlots : ~bus[s].dbErr) =>
        \A n \in {1, 2} :
            RowsFrom(entries, Limiter(n).service, now - Limiter(n).windowMs)
                <= Limiter(n).max

\* C8: the step that rejects a request adds one to the count kept for its key.
C8_RejectedStillCounts ==
    [][\A s \in BusSlots :
         (bus[s].pc = "create" /\ bus'[s].pc = "done" /\ bus'[s].status = 429) =>
             RowsFrom(entries', Limiter(bus[s].lim).service, 0)
                 = RowsFrom(entries, Limiter(bus[s].lim).service, 0) + 1]_vars

====
